---- MODULE Spec2Model ----
(***************************************************************************)
(* Family-Tree editor: the entity store (familyData), the relationship     *)
(* resolvers and the mutation operations of app.js, as a state machine.    *)
(*                                                                         *)
(* An id `${base}-${n}` is the pair <<base, n>>; JavaScript null for an id *)
(* is the empty tuple.  A name is the sequence of its space-separated      *)
(* words.  familyData.people is the sequence of person records in the      *)
(* insertion order of the object's keys (the order Object.values yields).  *)
(***************************************************************************)
EXTENDS Integers, Sequences, FiniteSets, TLC

VARIABLES familyData, last, created,
          currentUser, isProcessingSignIn, localStorage, trees, tree_shares,
          tasks, cloudLast

storeVars == <<familyData, last, created>>

cloudVars == <<currentUser, isProcessingSignIn, localStorage, trees, tree_shares,
               tasks, cloudLast>>

vars == <<storeVars, cloudVars>>

----------------------------------------------------------------------------
(* Bounds of the model *)

MaxPeople == 3

MaxOrder == 3

MaxRoots == 3

MaxCreated == 4

\* persons in the store where two parents and two children are needed
MaxFamily == 4

\* rows of the trees table, share records, post-sign-in tasks in progress
MaxRows == 3

MaxShares == 1
MaxDisabledShares == 2

MaxTasks == 2

----------------------------------------------------------------------------
(* Values *)

Null == <<>>

NoBirthOrder == -1

NoPerson ==
  [id |-> Null, name |-> <<>>, parentIds |-> <<>>, spouseId |-> Null,
   birthOrder |-> NoBirthOrder]

\* names typed into the forms: one first name in two spellings
Names == { <<"Robert", "Johnson">>, <<"robert">> }

\* names with two different first names
TwoNames == { <<"Robert", "Johnson">>, <<"Eleanor", "Johnson">> }

UnknownId == <<"nobody", 1>>

toLowerCase(word) ==
  CASE word = "Robert"  -> "robert"
    [] word = "Johnson" -> "johnson"
    [] word = "Eleanor" -> "eleanor"
    [] OTHER            -> word

includes(seq, x) == \E i \in DOMAIN seq : seq[i] = x

Range(seq) == { seq[i] : i \in DOMAIN seq }

Max(a, b) == IF a >= b THEN a ELSE b

----------------------------------------------------------------------------
(* Data helpers *)

Keys(fd) == { fd.people[i].id : i \in DOMAIN fd.people }

getPersonById(fd, id) ==
  IF id \in Keys(fd)
    THEN fd.people[CHOOSE i \in DOMAIN fd.people : fd.people[i].id = id]
    ELSE NoPerson

getSpouse(fd, personId) ==
  LET person == getPersonById(fd, personId)
  IN  IF person = NoPerson \/ person.spouseId = Null
        THEN NoPerson
        ELSE getPersonById(fd, person.spouseId)

\* (p.birthOrder || dflt): a missing birthOrder and 0 are both falsy
birthOrderOr(p, dflt) ==
  IF p.birthOrder = NoBirthOrder \/ p.birthOrder = 0 THEN dflt ELSE p.birthOrder

SortSentinel == 999

sortKey(p) == birthOrderOr(p, SortSentinel)

RECURSIVE insertStable_beforeEqual(_, _)
\* mutant: an item moves in front of the items with an equal key
insertStable_beforeEqual(x, sorted) ==
  IF sorted = <<>> THEN <<x>>
  ELSE IF sortKey(sorted[Len(sorted)]) < sortKey(x)
         THEN Append(sorted, x)
         ELSE Append(insertStable_beforeEqual(x, SubSeq(sorted, 1, Len(sorted) - 1)),
                     sorted[Len(sorted)])

\* Array.prototype.sort with the comparator a.key - b.key: a stable sort
RECURSIVE insertStable(_, _)
insertStable(x, sorted) ==
  IF sorted = <<>> THEN <<x>>
  ELSE IF sortKey(sorted[Len(sorted)]) <= sortKey(x)
         THEN Append(sorted, x)
         ELSE Append(insertStable(x, SubSeq(sorted, 1, Len(sorted) - 1)),
                     sorted[Len(sorted)])

RECURSIVE sortByBirthOrder(_)
sortByBirthOrder(s) ==
  IF s = <<>> THEN <<>>
  ELSE insertStable(s[Len(s)], sortByBirthOrder(SubSeq(s, 1, Len(s) - 1)))

getChildren(fd, personId) ==
  sortByBirthOrder(
    SelectSeq(fd.people, LAMBDA p : includes(p.parentIds, personId)))

\* people who share a parent with personId, in the order of Object.values
getSiblings(fd, personId) ==
  LET person == getPersonById(fd, personId)
  IN  IF person = NoPerson \/ person.parentIds = <<>> THEN <<>>
      ELSE SelectSeq(fd.people, LAMBDA p :
             /\ p.id # personId
             /\ p.parentIds # <<>>
             /\ \E i \in DOMAIN p.parentIds :
                   includes(person.parentIds, p.parentIds[i]))

----------------------------------------------------------------------------
(* Descendants and the recursive renderer *)

childIds(fd, personId) == { p.id : p \in Range(getChildren(fd, personId)) }

RECURSIVE reachable(_, _, _)
reachable(fd, frontier, seen) ==
  LET new == (UNION { childIds(fd, x) : x \in frontier }) \ seen
  IN  IF new = {} THEN seen ELSE reachable(fd, new, seen \cup new)

\* the ids reachable from personId by one or more child links
descendantIds(fd, personId) ==
  LET c == childIds(fd, personId) IN reachable(fd, c, c)

\* getDescendants / renderBranch recurse without a visited set: on a person
\* that reaches a cycle of child links the recursion never ends and the
\* engine throws RangeError (call stack exhausted)
recursionOverflows(fd, personId) ==
  \E p \in descendantIds(fd, personId) \cup {personId} :
     p \in descendantIds(fd, p)

RECURSIVE getDescendants(_, _)
RECURSIVE descendantsOfEach(_, _)
descendantsOfEach(fd, children) ==
  IF children = <<>> THEN <<>>
  ELSE <<Head(children)>> \o getDescendants(fd, Head(children).id)
         \o descendantsOfEach(fd, Tail(children))

getDescendants(fd, personId) == descendantsOfEach(fd, getChildren(fd, personId))

\* rootPersonIds.map(getPersonById).filter(p => p)
rootPeople(fd) ==
  SelectSeq([i \in DOMAIN fd.rootPersonIds |->
               getPersonById(fd, fd.rootPersonIds[i])],
            LAMBDA p : p # NoPerson)

\* renderTree calls renderBranch on every root; it changes nothing in the store
renderTreeThrows(fd) ==
  \E p \in Range(rootPeople(fd)) : recursionOverflows(fd, p.id)

----------------------------------------------------------------------------
(* Data modification.  Every operation yields the store it leaves, how it  *)
(* ended (the kind of value returned, or RangeError when its trailing      *)
(* renderTree overflowed the stack) and the id of the person it created.   *)

Result(fd, ret, newId) == [fd |-> fd, ret |-> ret, newId |-> newId]

ended(fd, value) == IF renderTreeThrows(fd) THEN "RangeError" ELSE value

\* mutant: the counter is the number of people plus one, without probing
probe_countsPeople(fd, baseName, counter) ==
  <<baseName, Len(fd.people) + 1>>

RECURSIVE probe(_, _, _)
probe(fd, baseName, counter) ==
  IF <<baseName, counter>> \in Keys(fd)
    THEN probe(fd, baseName, counter + 1)
    ELSE <<baseName, counter>>

\* name.toLowerCase().split(' ')[0], then the first unused counter from 1
generateId(fd, name) ==
  LET lowered == [i \in DOMAIN name |-> toLowerCase(name[i])]
  IN  probe(fd, lowered[1], 1)

setField(people, id, field, value) ==
  [i \in DOMAIN people |->
     IF people[i].id = id THEN [people[i] EXCEPT ![field] = value]
     ELSE people[i]]

addPerson(fd, name, parentIds, spouseId, birthOrder) ==
  LET id == generateId(fd, name)
      added == [fd EXCEPT !.people =
                  Append(@, [id |-> id, name |-> name, parentIds |-> parentIds,
                             spouseId |-> spouseId, birthOrder |-> birthOrder])]
      linked == IF spouseId # Null /\ getPersonById(added, spouseId) # NoPerson
                  THEN [added EXCEPT !.people = setField(@, spouseId, "spouseId", id)]
                  ELSE added
  IN  Result(linked, ended(linked, "id"), id)

\* mutant: the number of children is taken for the largest birthOrder
maxBirthOrder_count(persons) == Len(persons)

\* reduce((max, c) => Math.max(max, c.birthOrder || 0), 0)
RECURSIVE maxBirthOrder(_)
maxBirthOrder(persons) ==
  IF persons = <<>> THEN 0
  ELSE Max(maxBirthOrder(SubSeq(persons, 1, Len(persons) - 1)),
           birthOrderOr(persons[Len(persons)], 0))

\* mutant: the spouse of the parent is not made a parent
addChild_singleParent(fd, parentId, childName) ==
  LET parent == getPersonById(fd, parentId)
      maxOrder == maxBirthOrder(getChildren(fd, parentId))
  IN  IF parent = NoPerson THEN Result(fd, "null", Null)
      ELSE addPerson(fd, childName, <<parentId>>, Null, maxOrder + 1)

\* mutant: the parent is pushed again instead of its spouse
addChild_parentTwice(fd, parentId, childName) ==
  LET parent == getPersonById(fd, parentId)
      parentIds == IF parent.spouseId # Null
                     THEN <<parentId, parentId>> ELSE <<parentId>>
      maxOrder == maxBirthOrder(getChildren(fd, parentId))
  IN  IF parent = NoPerson THEN Result(fd, "null", Null)
      ELSE addPerson(fd, childName, parentIds, Null, maxOrder + 1)

addChild(fd, parentId, childName) ==
  LET parent == getPersonById(fd, parentId)
      parentIds == IF parent.spouseId # Null
                     THEN <<parentId, parent.spouseId>> ELSE <<parentId>>
      maxOrder == maxBirthOrder(getChildren(fd, parentId))
  IN  IF parent = NoPerson THEN Result(fd, "null", Null)
      ELSE addPerson(fd, childName, parentIds, Null, maxOrder + 1)

\* mutant: the check for a parentless person is missing
addSibling_noParentCheck(fd, personId, siblingName) ==
  LET person == getPersonById(fd, personId)
      maxOrder == IF person.parentIds = <<>> THEN 0
                  ELSE maxBirthOrder(getChildren(fd, person.parentIds[1]))
  IN  IF person = NoPerson THEN Result(fd, "null", Null)
      ELSE addPerson(fd, siblingName, person.parentIds, Null, maxOrder + 1)

\* mutant: the sibling is linked to the first parent only
addSibling_firstParentOnly(fd, personId, siblingName) ==
  LET person == getPersonById(fd, personId)
      parentId == person.parentIds[1]
      maxOrder == maxBirthOrder(getChildren(fd, parentId))
  IN  IF person = NoPerson \/ Len(person.parentIds) = 0
        THEN Result(fd, "null", Null)
        ELSE addPerson(fd, siblingName, <<parentId>>, Null, maxOrder + 1)

addSibling(fd, personId, siblingName) ==
  LET person == getPersonById(fd, personId)
      parentId == person.parentIds[1]
      maxOrder == maxBirthOrder(getChildren(fd, parentId))
  IN  IF person = NoPerson \/ Len(person.parentIds) = 0
        THEN Result(fd, "null", Null)
        ELSE addPerson(fd, siblingName, person.parentIds, Null, maxOrder + 1)

\* mutant: the new id is put in front of rootPersonIds
addRootSibling_prepends(fd, personId, siblingName) ==
  LET maxOrder == maxBirthOrder(rootPeople(fd))
      id == generateId(fd, siblingName)
      added == [fd EXCEPT
                  !.people = Append(@, [id |-> id, name |-> siblingName,
                                        parentIds |-> <<>>, spouseId |-> Null,
                                        birthOrder |-> maxOrder + 1]),
                  !.rootPersonIds = <<id>> \o @]
  IN  Result(added, ended(added, "id"), id)

\* mutant: the id of the subject is pushed instead of the new id
addRootSibling_pushesSubject(fd, personId, siblingName) ==
  LET maxOrder == maxBirthOrder(rootPeople(fd))
      id == generateId(fd, siblingName)
      added == [fd EXCEPT
                  !.people = Append(@, [id |-> id, name |-> siblingName,
                                        parentIds |-> <<>>, spouseId |-> Null,
                                        birthOrder |-> maxOrder + 1]),
                  !.rootPersonIds = Append(@, personId)]
  IN  Result(added, ended(added, "id"), id)

addRootSibling(fd, personId, siblingName) ==
  LET maxOrder == maxBirthOrder(rootPeople(fd))
      id == generateId(fd, siblingName)
      added == [fd EXCEPT
                  !.people = Append(@, [id |-> id, name |-> siblingName,
                                        parentIds |-> <<>>, spouseId |-> Null,
                                        birthOrder |-> maxOrder + 1]),
                  !.rootPersonIds = Append(@, id)]
  IN  Result(added, ended(added, "id"), id)

\* mutant: the check for an existing spouse is missing
addSpouse_noSpouseCheck(fd, personId, spouseName) ==
  LET person == getPersonById(fd, personId)
  IN  IF person = NoPerson THEN Result(fd, "null", Null)
      ELSE addPerson(fd, spouseName, <<>>, personId, NoBirthOrder)

addSpouse(fd, personId, spouseName) ==
  LET person == getPersonById(fd, personId)
  IN  IF person = NoPerson \/ person.spouseId # Null
        THEN Result(fd, "null", Null)
        ELSE addPerson(fd, spouseName, <<>>, personId, NoBirthOrder)

deleteKey(people, id) == SelectSeq(people, LAMBDA p : p.id # id)

\* mutant: the spouse is unlinked and kept in people
deleteSpouse_unlinksOnly(fd, personId, spouseId) ==
  LET unlinked == IF getPersonById(fd, personId) # NoPerson
                    THEN [fd EXCEPT !.people = setField(@, personId, "spouseId", Null)]
                    ELSE fd
      deleted == IF getPersonById(unlinked, spouseId) # NoPerson
                   THEN [unlinked EXCEPT !.people = setField(@, spouseId, "spouseId", Null)]
                   ELSE unlinked
  IN  Result(deleted, ended(deleted, "undefined"), Null)

deleteSpouse(fd, personId, spouseId) ==
  LET unlinked == IF getPersonById(fd, personId) # NoPerson
                    THEN [fd EXCEPT !.people = setField(@, personId, "spouseId", Null)]
                    ELSE fd
      deleted == IF getPersonById(unlinked, spouseId) # NoPerson
                   THEN [unlinked EXCEPT !.people = deleteKey(@, spouseId)]
                   ELSE unlinked
  IN  Result(deleted, ended(deleted, "undefined"), Null)

\* mutant: the lookup of the person is not checked
updatePerson_noCheck(fd, personId, name) ==
  LET updated == [fd EXCEPT !.people = setField(@, personId, "name", name)]
  IN  Result(updated, ended(updated, "true"), Null)

\* Object.assign(person, updates) with the updates the forms pass: { name }
updatePerson(fd, personId, name) ==
  LET updated == [fd EXCEPT !.people = setField(@, personId, "name", name)]
  IN  IF getPersonById(fd, personId) = NoPerson THEN Result(fd, "false", Null)
      ELSE Result(updated, ended(updated, "true"), Null)

\* indexOf + splice(index, 1): the first occurrence only
removeFirst(seq, x) ==
  IF ~includes(seq, x) THEN seq
  ELSE LET i == CHOOSE k \in DOMAIN seq :
                  seq[k] = x /\ \A j \in 1..(k - 1) : seq[j] # x
       IN  SubSeq(seq, 1, i - 1) \o SubSeq(seq, i + 1, Len(seq))

\* mutant: the partner keeps its spouseId
removePerson_keepsSpouseLink(fd, personId) ==
  LET person == getPersonById(fd, personId)
      stripped == [i \in DOMAIN fd.people |->
                     [fd.people[i] EXCEPT !.parentIds =
                        SelectSeq(@, LAMBDA id : id # personId)]]
      removed == [fd EXCEPT !.people = deleteKey(stripped, personId),
                            !.rootPersonIds = removeFirst(@, personId)]
  IN  IF person = NoPerson THEN Result(fd, "false", Null)
      ELSE Result(removed, ended(removed, "true"), Null)

removePerson(fd, personId) ==
  LET person == getPersonById(fd, personId)
      unlinked == IF person.spouseId # Null
                     /\ getPersonById(fd, person.spouseId) # NoPerson
                    THEN setField(fd.people, person.spouseId, "spouseId", Null)
                    ELSE fd.people
      stripped == [i \in DOMAIN unlinked |->
                     [unlinked[i] EXCEPT !.parentIds =
                        SelectSeq(@, LAMBDA id : id # personId)]]
      removed == [fd EXCEPT !.people = deleteKey(stripped, personId),
                            !.rootPersonIds = removeFirst(@, personId)]
  IN  IF person = NoPerson THEN Result(fd, "false", Null)
      ELSE Result(removed, ended(removed, "true"), Null)

\* confirm handler of showDeleteConfirm: the descendants are deleted by key,
\* then removePerson runs on the person (its return value is not used)
RECURSIVE deleteAll(_, _)
deleteAll(people, descendants) ==
  IF descendants = <<>> THEN people
  ELSE deleteAll(deleteKey(people, Head(descendants).id), Tail(descendants))

\* mutant: the descendants are left in the store
confirmDelete_keepsDescendants(fd, personId, descendants) ==
  LET r == removePerson(fd, personId)
  IN  Result(r.fd, IF r.ret = "RangeError" THEN "RangeError" ELSE "undefined", Null)

confirmDelete(fd, personId, descendants) ==
  LET cleared == [fd EXCEPT !.people = deleteAll(@, descendants)]
      r == removePerson(cleared, personId)
  IN  Result(r.fd, IF r.ret = "RangeError" THEN "RangeError" ELSE "undefined", Null)

----------------------------------------------------------------------------
(* Reordering *)

\* handleDrop: the dragged item ends at the index of the drop target
moveItem(items, from, to) ==
  LET without == SubSeq(items, 1, from - 1) \o SubSeq(items, from + 1, Len(items))
  IN  SubSeq(without, 1, to - 1) \o <<items[from]>>
        \o SubSeq(without, to, Len(without))

\* items.forEach((item, index) => child.birthOrder = index + 1)
setBirthOrders(people, ids) ==
  [i \in DOMAIN people |->
     IF includes(ids, people[i].id)
       THEN [people[i] EXCEPT !.birthOrder =
               CHOOSE n \in 1..Len(ids) :
                  /\ ids[n] = people[i].id
                  /\ \A m \in (n + 1)..Len(ids) : ids[m] # people[i].id]
       ELSE people[i]]

handleDragEnd(fd, ids) ==
  LET reordered == [fd EXCEPT !.people = setBirthOrders(@, ids)]
  IN  Result(reordered, ended(reordered, "undefined"), Null)

handleRootDragEnd(fd, ids) ==
  LET reordered == [fd EXCEPT !.people = setBirthOrders(@, ids),
                              !.rootPersonIds = ids]
  IN  Result(reordered, ended(reordered, "undefined"), Null)

idsOf(persons) == [i \in DOMAIN persons |-> persons[i].id]

----------------------------------------------------------------------------
(* Layout *)

\* mutant: a child placed in an earlier generation is placed again
notPlaced_ignoresVisited(id, visited, nextGen) == ~includes(nextGen, id)

\* !visited.has(child.id) && !nextGen.includes(child.id)
notPlaced(id, visited, nextGen) == id \notin visited /\ ~includes(nextGen, id)

\* children.forEach(child => { if (...) nextGen.push(child.id) })
RECURSIVE pushChildren(_, _, _)
pushChildren(children, visited, nextGen) ==
  IF children = <<>> THEN nextGen
  ELSE pushChildren(Tail(children), visited,
         IF notPlaced(Head(children).id, visited, nextGen)
           THEN Append(nextGen, Head(children).id)
           ELSE nextGen)

\* currentGen.forEach(personId => ...)
RECURSIVE nextGeneration(_, _, _, _)
nextGeneration(fd, currentGen, visited, nextGen) ==
  IF currentGen = <<>> THEN nextGen
  ELSE nextGeneration(fd, Tail(currentGen), visited,
         pushChildren(getChildren(fd, Head(currentGen)), visited, nextGen))

\* while (currentGen.length > 0) { ... }
RECURSIVE generationsFrom(_, _, _, _)
generationsFrom(fd, currentGen, visited, generations) ==
  IF currentGen = <<>> THEN generations
  ELSE LET seen == visited \cup Range(currentGen)
       IN  generationsFrom(fd, nextGeneration(fd, currentGen, seen, <<>>), seen,
                           Append(generations, currentGen))

\* buildGenerations starts from familyData.rootPersonId, the single root of
\* the store layout it was written for; the stores of data.js have no such
\* field (rootPersonId is then Null)
buildGenerations(fd, rootPersonId) ==
  generationsFrom(fd, <<rootPersonId>>, {}, <<>>)

\* mutant: a collapsed person stays collapsed
toggleCollapse_neverExpands(fd, id) ==
  IF includes(fd.collapsedIds, id) THEN fd
  ELSE [fd EXCEPT !.collapsedIds = Append(@, id)]

\* collapse-toggled(id): id leaves collapsedIds if it is there, joins otherwise
toggleCollapse(fd, id) ==
  IF includes(fd.collapsedIds, id)
    THEN [fd EXCEPT !.collapsedIds = SelectSeq(@, LAMBDA c : c # id)]
    ELSE [fd EXCEPT !.collapsedIds = Append(@, id)]

\* the branch of a person: its node, and the branches of its children unless
\* the person is collapsed
RECURSIVE layoutBranch(_, _)
RECURSIVE layoutBranches(_, _)
layoutBranches(fd, persons) ==
  IF persons = <<>> THEN <<>>
  ELSE layoutBranch(fd, Head(persons).id) \o layoutBranches(fd, Tail(persons))

layoutBranch(fd, personId) ==
  IF getPersonById(fd, personId) = NoPerson THEN <<>>
  ELSE <<personId>> \o
         (IF includes(fd.collapsedIds, personId) THEN <<>>
          ELSE layoutBranches(fd, getChildren(fd, personId)))

\* the layout: the branches of the roots, sorted by birthOrder
layoutTree(fd) == layoutBranches(fd, sortByBirthOrder(rootPeople(fd)))

\* the persons that have a node in the layout
visibleIds(fd) == Range(layoutTree(fd))

----------------------------------------------------------------------------
(* Cloud storage, sharing and sign-in (supabase.js).  The tables trees and *)
(* tree_shares are the sequences of their rows in insertion order; the     *)
(* timestamps created_at and updated_at are left out.  A tree is the       *)
(* object the application keeps per tree: id, title, tagline and the three *)
(* fields of the entity store.  What the session lookup, the network and   *)
(* the store do to one request is an input of the call (its outcome); the  *)
(* store refuses what its row-level policies refuse.                       *)

\* currentUser === null
NoUser == ""

Undefined == "undefined"

Users == { "alice", "bob" }

TreeIds == { "tree-1", "tree-2" }

Tokens == { "tokenA", "tokenB" }

Permissions == { "viewer", "editor" }

DefaultTitle == "Family Name"

EmptyStore == [rootPersonIds |-> <<>>, collapsedIds |-> <<>>, people |-> <<>>]

\* two roots, shown in the reverse of the order they were added in
TwoRoots ==
  LET one == addRootSibling(EmptyStore, Null, <<"Robert", "Johnson">>).fd
      two == addRootSibling(one, Null, <<"Eleanor", "Johnson">>).fd
  IN  handleRootDragEnd(two, << <<"eleanor", 1>>, <<"robert", 1>> >>).fd

Tree(id, title, tagline, store) ==
  [id |-> id, title |-> title, tagline |-> tagline,
   rootPersonIds |-> store.rootPersonIds, collapsedIds |-> store.collapsedIds,
   people |-> store.people]

NoTree == Tree("", Undefined, Undefined, EmptyStore)

\* the untouched default tree, an empty tree with a title, a tree with people
TreeContents ==
  { [title |-> DefaultTitle, tagline |-> Undefined, store |-> EmptyStore],
    [title |-> "Johnson", tagline |-> Undefined, store |-> EmptyStore],
    [title |-> "Johnson", tagline |-> "Est. 1950", store |-> TwoRoots] }

\* the trees the application holds: tree-1 with any content, tree-2 with people
ClientTrees ==
  { Tree("tree-1", c.title, c.tagline, c.store) : c \in TreeContents }
    \cup { Tree("tree-2", "Johnson", "Est. 1950", TwoRoots) }

\* localStorage.familyTreeData: the trees of parsed.trees in key order; the
\* empty sequence stands for a missing item and for an empty trees object
LocalContents ==
  { <<>> } \cup { <<t>> : t \in { c \in ClientTrees : c.id = "tree-1" } }
    \cup { <<t, u>> : t \in { c \in ClientTrees : c.id = "tree-1" /\ c.people = <<>> },
                      u \in { c \in ClientTrees : c.id = "tree-2" } }

\* value || ''
orEmpty(value) == IF value = Undefined THEN "" ELSE value

rowsWithId(table, id) == { i \in DOMAIN table : table[i].id = id }

\* policy "Editors can update shared trees" ON trees FOR UPDATE
editorsCanUpdate(shares, row, uid) ==
  \/ row.user_id = uid
  \/ \E i \in DOMAIN shares :
        /\ shares[i].tree_id = row.id
        /\ shares[i].permission = "editor"
        /\ shares[i].is_active

\* mutant: the request inserts and never resolves a conflict on id
upsert_insertOnly(table, row) == Append(table, row)

\* POST trees?on_conflict=id with Prefer: resolution=merge-duplicates
upsert(table, row) ==
  IF rowsWithId(table, row.id) = {} THEN Append(table, row)
  ELSE [i \in DOMAIN table |-> IF table[i].id = row.id THEN row ELSE table[i]]

treeData(tree, user) ==
  [id |-> tree.id, user_id |-> user, title |-> tree.title,
   tagline |-> orEmpty(tree.tagline),
   data |-> [rootPersonIds |-> tree.rootPersonIds,
             collapsedIds |-> tree.collapsedIds,
             people |-> tree.people]]

SaveOutcomes == { "ok", "rejected", "textError", "networkError", "sessionError" }

\* the response to the upsert: a conflicting row is updated only where the
\* update policy lets this user update it
response(table, shares, row, outcome) ==
  IF /\ outcome = "ok"
     /\ \E i \in rowsWithId(table, row.id) :
           ~editorsCanUpdate(shares, table[i], row.user_id)
    THEN "rejected"
    ELSE outcome

Saved(table, ret, contacted) ==
  [trees |-> table, ret |-> ret, contacted |-> contacted]

\* mutant: no try / catch around the session lookup and the request
saveTreeToCloud_noCatch(user, table, shares, tree, outcome) ==
  IF user = NoUser THEN Saved(table, "false", FALSE)
  ELSE LET row == treeData(tree, user)
           res == response(table, shares, row, outcome)
       IN  CASE res = "sessionError" -> Saved(table, "rejects", FALSE)
             [] res = "networkError" -> Saved(table, "rejects", TRUE)
             [] res = "textError" -> Saved(table, "rejects", TRUE)
             [] res = "rejected" -> Saved(table, "false", TRUE)
             [] OTHER -> Saved(upsert(table, row), "true", TRUE)

saveTreeToCloud(user, table, shares, tree, outcome) ==
  IF user = NoUser THEN Saved(table, "false", FALSE)
  ELSE LET row == treeData(tree, user)
           res == response(table, shares, row, outcome)
       IN  CASE res = "sessionError" -> Saved(table, "false", FALSE)
             [] res = "networkError" -> Saved(table, "false", TRUE)
             [] res = "textError" -> Saved(table, "false", TRUE)
             [] res = "rejected" -> Saved(table, "false", TRUE)
             [] OTHER -> Saved(upsert(table, row), "true", TRUE)

\* the result null of loadTreesFromCloud
NoCloudData == [version |-> 0, activeTreeId |-> "", trees |-> <<>>]

\* mutant: the row's data column is not spread into the tree
treeOfRow_withoutData(row) ==
  Tree(row.id, row.title, row.tagline, EmptyStore)

treeOfRow(row) == Tree(row.id, row.title, row.tagline, row.data)

lastRowWithId(data, id) ==
  data[CHOOSE i \in rowsWithId(data, id) : \A j \in rowsWithId(data, id) : j <= i]

loadTreesFromCloud(user, table, outcome) ==
  IF user = NoUser \/ outcome # "ok" THEN NoCloudData
  ELSE LET data == SelectSeq(table, LAMBDA row : row.user_id = user)
       IN  IF data = <<>> THEN NoCloudData
           ELSE [version |-> 2, activeTreeId |-> data[1].id,
                 trees |-> [id \in { data[i].id : i \in DOMAIN data } |->
                              treeOfRow(lastRowWithId(data, id))]]

hasRealData(local) ==
  \E i \in DOMAIN local :
     \/ local[i].people # <<>>
     \/ local[i].title # Undefined /\ local[i].title # DefaultTitle

skipped(tree) == tree.people = <<>> /\ tree.title = DefaultTitle

\* generateMigrationTreeId: an id no stored tree has
MigrationIds == << "tree-a", "tree-b", "tree-c", "tree-d", "tree-e", "tree-f" >>

generateMigrationTreeId(table) == MigrationIds[Len(table) + 1]

RECURSIVE migrateTrees_newIds(_, _, _, _, _)
\* mutant: every migrated tree is saved under a newly generated id
migrateTrees_newIds(user, table, shares, local, outcomes) ==
  IF local = <<>> THEN table
  ELSE LET tree == Head(local)
           migratedTree == [tree EXCEPT !.id = generateMigrationTreeId(table)]
           saved == IF skipped(tree) THEN table
                    ELSE saveTreeToCloud(user, table, shares, migratedTree,
                                         Head(outcomes)).trees
       IN  migrateTrees_newIds(user, saved, shares, Tail(local), Tail(outcomes))

RECURSIVE migrateTrees(_, _, _, _, _)
\* the loop over the trees of localStorage: one save per tree not skipped
migrateTrees(user, table, shares, local, outcomes) ==
  IF local = <<>> THEN table
  ELSE LET tree == Head(local)
           saved == IF skipped(tree) THEN table
                    ELSE saveTreeToCloud(user, table, shares, tree,
                                         Head(outcomes)).trees
       IN  migrateTrees(user, saved, shares, Tail(local), Tail(outcomes))

migrateLocalStorageToCloud(user, table, shares, local, outcomes) ==
  IF local = <<>> \/ ~hasRealData(local) THEN table
  ELSE migrateTrees(user, table, shares, local, outcomes)

Shared(shares, success) == [tree_shares |-> shares, success |-> success]

\* the insert is refused unless the user owns the tree (policy "Tree owners
\* can create shares") and the token is new (share_token UNIQUE)
createShareLink(user, table, shares, treeId, permission, shareToken, outcome) ==
  IF user = NoUser THEN Shared(shares, FALSE)
  ELSE IF /\ outcome = "ok"
          /\ \E i \in rowsWithId(table, treeId) : table[i].user_id = user
          /\ \A i \in DOMAIN shares : shares[i].share_token # shareToken
         THEN Shared(Append(shares, [tree_id |-> treeId, share_token |-> shareToken,
                                     permission |-> permission, created_by |-> user,
                                     is_active |-> TRUE]), TRUE)
         ELSE Shared(shares, FALSE)

sharesWithToken(shares, shareToken) ==
  { i \in DOMAIN shares : shares[i].share_token = shareToken }

\* the rows of that id a select returns (policy "Anyone can read shared trees")
readableRows(user, table, shares, treeId) ==
  { i \in rowsWithId(table, treeId) :
      \/ table[i].user_id = user
      \/ \E k \in DOMAIN shares :
            shares[k].tree_id = table[i].id /\ shares[k].is_active }

NoSharedTree == [tree |-> NoTree, permission |-> ""]

getTreeByShareToken(user, table, shares, token, outcome) ==
  LET found == sharesWithToken(shares, token)
  IN  IF outcome # "ok" \/ Cardinality(found) # 1 THEN NoSharedTree
      ELSE LET shareData == shares[CHOOSE i \in found : TRUE]
               rows == readableRows(user, table, shares, shareData.tree_id)
           IN  IF ~shareData.is_active THEN NoSharedTree
               ELSE IF Cardinality(rows) # 1 THEN NoSharedTree
               ELSE [tree |-> treeOfRow(table[CHOOSE i \in rows : TRUE]),
                     permission |-> shareData.permission]

\* the creator of a share record sets its is_active to false (policy
\* "Creators can update their shares")
disableShare(user, shares, shareToken) ==
  [i \in DOMAIN shares |->
     IF shares[i].share_token = shareToken /\ shares[i].created_by = user
       THEN [shares[i] EXCEPT !.is_active = FALSE]
     ELSE shares[i]]

EditorOutcomes == { "ok", "lookupError", "updateError", "throws" }

\* the rows the update reaches: those of that id the update policy allows
updatedRows(user, table, shares, treeId) ==
  { i \in rowsWithId(table, treeId) : editorsCanUpdate(shares, table[i], user) }

editedRow(row, tree) ==
  [row EXCEPT !.title = tree.title, !.tagline = orEmpty(tree.tagline),
              !.data = [rootPersonIds |-> tree.rootPersonIds,
                        collapsedIds |-> tree.collapsedIds,
                        people |-> tree.people]]

\* mutant: the permission of the share record is not looked at
saveTreeAsEditor_anyPermission(user, table, shares, tree, shareToken, outcome) ==
  LET found == sharesWithToken(shares, shareToken)
  IN  IF outcome = "throws" \/ outcome = "lookupError" \/ Cardinality(found) # 1
        THEN Saved(table, "false", TRUE)
      ELSE LET shareData == shares[CHOOSE i \in found : TRUE]
               updated == updatedRows(user, table, shares, shareData.tree_id)
           IN  IF outcome = "updateError" \/ updated = {}
                 THEN Saved(table, "false", TRUE)
               ELSE Saved([i \in DOMAIN table |->
                             IF i \in updated THEN editedRow(table[i], tree)
                             ELSE table[i]], "true", TRUE)

saveTreeAsEditor(user, table, shares, tree, shareToken, outcome) ==
  LET found == sharesWithToken(shares, shareToken)
  IN  IF outcome = "throws" \/ outcome = "lookupError" \/ Cardinality(found) # 1
        THEN Saved(table, "false", TRUE)
      ELSE LET shareData == shares[CHOOSE i \in found : TRUE]
               updated == updatedRows(user, table, shares, shareData.tree_id)
           IN  IF shareData.permission # "editor" THEN Saved(table, "false", TRUE)
               ELSE IF outcome = "updateError" \/ updated = {}
                 THEN Saved(table, "false", TRUE)
               ELSE Saved([i \in DOMAIN table |->
                             IF i \in updated THEN editedRow(table[i], tree)
                             ELSE table[i]], "true", TRUE)

\* mutant: every SIGNED_IN event starts the post-sign-in task
startsTask_unguarded(event, processing) == event = "SIGNED_IN"

\* the callback goes on to the post-sign-in task
startsTask(event, processing) == event = "SIGNED_IN" /\ ~processing

NoCloudCall ==
  [op |-> "init", ret |-> "undefined", tree |-> NoTree, arg |-> "",
   contacted |-> FALSE, outcomes |-> <<>>, repeat |-> FALSE]

----------------------------------------------------------------------------
(* The state machine.  last records the call that produced the state: the  *)
(* operation, its id argument, how it ended, the id of the person it       *)
(* created (if any), for the branch delete the number of descendants it    *)
(* listed, and for a reorder the committed list.  created counts the       *)
(* persons created so far; it only bounds the length of a session.         *)

Init ==
  /\ familyData = [rootPersonIds |-> <<>>, collapsedIds |-> <<>>, people |-> <<>>]
  /\ last = [op |-> "init", id |-> Null, ret |-> "undefined", newId |-> Null,
             n |-> 0, list |-> <<>>]
  /\ created = 0
  /\ currentUser = ""
  /\ isProcessingSignIn = FALSE
  /\ localStorage = <<>>
  /\ trees = <<>>
  /\ tree_shares = <<>>
  /\ tasks = <<>>
  /\ cloudLast = NoCloudCall

IdArgs == Keys(familyData) \cup {UnknownId}

withinBounds(r) ==
  r.newId # Null =>
    /\ created < MaxCreated
    /\ Len(r.fd.people) <= MaxPeople
    /\ Len(r.fd.rootPersonIds) <= MaxRoots
    /\ \A i \in DOMAIN r.fd.people : r.fd.people[i].birthOrder <= MaxOrder

\* one call: the store it leaves and, in last, how it was called and ended;
\* list is the list the call was given or has shown
Call(op, id, r, n, list) ==
  /\ familyData' = r.fd
  /\ last' = [op |-> op, id |-> id, ret |-> r.ret, newId |-> r.newId, n |-> n,
              list |-> list]
  /\ created' = IF r.newId # Null THEN created + 1 ELSE created
  /\ UNCHANGED cloudVars

DoList(op, id, r, n, list) == withinBounds(r) /\ Call(op, id, r, n, list)

Do(op, id, r, n) == DoList(op, id, r, n, <<>>)

AddChild(parentId, childName) ==
  Do("addChild", parentId, addChild(familyData, parentId, childName), 0)

AddSibling(personId, siblingName) ==
  Do("addSibling", personId, addSibling(familyData, personId, siblingName), 0)

AddRootSibling(personId, siblingName) ==
  Do("addRootSibling", personId,
     addRootSibling(familyData, personId, siblingName), 0)

AddSpouse(personId, spouseName) ==
  Do("addSpouse", personId, addSpouse(familyData, personId, spouseName), 0)

\* delete handler of showSpouseForm: the form is built for an existing spouse
DeleteSpouse(personId) ==
  LET existingSpouse == getSpouse(familyData, personId)
  IN  /\ existingSpouse # NoPerson
      /\ Do("deleteSpouse", personId,
            deleteSpouse(familyData, personId, existingSpouse.id), 0)

UpdatePerson(personId, name) ==
  DoList("updatePerson", personId, updatePerson(familyData, personId, name),
         0, name)

RemovePerson(personId) ==
  Do("removePerson", personId, removePerson(familyData, personId), 0)

\* showDeleteConfirm followed by a click on its Delete button; without the
\* person no dialog is built, and getDescendants may overflow the stack
BranchDelete(personId) ==
  IF getPersonById(familyData, personId) = NoPerson
    THEN Do("showDeleteConfirm", personId, Result(familyData, "undefined", Null), 0)
  ELSE IF recursionOverflows(familyData, personId)
    THEN Do("showDeleteConfirm", personId, Result(familyData, "RangeError", Null), 0)
  ELSE LET descendants == getDescendants(familyData, personId)
       IN  Do("confirmDelete", personId,
              confirmDelete(familyData, personId, descendants), Len(descendants))

\* showReorderPanel(parentId), a drag of item `from` onto item `to` (from = to:
\* a drag released without a drop), then handleDragEnd
ReorderChildren(parentId, from, to) ==
  LET children == getChildren(familyData, parentId)
      items == moveItem(idsOf(children), from, to)
  IN  /\ getPersonById(familyData, parentId) # NoPerson
      /\ Len(children) >= 2
      /\ from \in DOMAIN children /\ to \in DOMAIN children
      /\ DoList("handleDragEnd", parentId, handleDragEnd(familyData, items),
                0, items)

ReorderRoots(from, to) ==
  LET roots == sortByBirthOrder(rootPeople(familyData))
      items == moveItem(idsOf(roots), from, to)
  IN  /\ Len(roots) >= 2
      /\ from \in DOMAIN roots /\ to \in DOMAIN roots
      /\ DoList("handleRootDragEnd", Null, handleRootDragEnd(familyData, items),
                0, items)

Next ==
  \/ \E id \in IdArgs, name \in Names : AddChild(id, name)
  \/ \E id \in IdArgs, name \in Names : AddSibling(id, name)
  \/ \E id \in IdArgs, name \in Names : AddRootSibling(id, name)
  \/ \E id \in IdArgs, name \in Names : AddSpouse(id, name)
  \/ \E id \in IdArgs : DeleteSpouse(id)
  \/ \E id \in IdArgs, name \in Names : UpdatePerson(id, name)
  \/ \E id \in IdArgs : RemovePerson(id)
  \/ \E id \in IdArgs : BranchDelete(id)
  \/ \E id \in IdArgs, from \in 1..MaxPeople, to \in 1..MaxPeople :
        ReorderChildren(id, from, to)
  \/ \E from \in 1..MaxPeople, to \in 1..MaxPeople : ReorderRoots(from, to)

Spec == Init /\ [][Next]_vars

\* The same store and operations with two first names in use.  Renaming is
\* left out: it touches no link and no id, and every behaviour of this
\* specification is a behaviour of the editor.
NextTwoNames ==
  \/ \E id \in IdArgs, name \in TwoNames : AddChild(id, name)
  \/ \E id \in IdArgs, name \in TwoNames : AddSibling(id, name)
  \/ \E id \in IdArgs, name \in TwoNames : AddRootSibling(id, name)
  \/ \E id \in IdArgs, name \in TwoNames : AddSpouse(id, name)
  \/ \E id \in IdArgs : DeleteSpouse(id)
  \/ \E id \in IdArgs : RemovePerson(id)
  \/ \E id \in IdArgs : BranchDelete(id)
  \/ \E id \in IdArgs, from \in 1..MaxPeople, to \in 1..MaxPeople :
        ReorderChildren(id, from, to)
  \/ \E from \in 1..MaxPeople, to \in 1..MaxPeople : ReorderRoots(from, to)

SpecTwoNames == Init /\ [][NextTwoNames]_vars

\* A couple and its children: the calls that add a person may fill the store
\* up to MaxFamily persons, all under one name.
withinFamily(r) ==
  r.newId # Null =>
    /\ created < MaxCreated
    /\ Len(r.fd.people) <= MaxFamily
    /\ Len(r.fd.rootPersonIds) <= MaxRoots
    /\ \A i \in DOMAIN r.fd.people : r.fd.people[i].birthOrder <= MaxOrder

Add(op, id, r) == withinFamily(r) /\ Call(op, id, r, 0, <<>>)

NextSiblings ==
  \/ \E id \in IdArgs : Add("addRootSibling", id, addRootSibling(familyData, id, <<"robert">>))
  \/ \E id \in IdArgs : Add("addSpouse", id, addSpouse(familyData, id, <<"robert">>))
  \/ \E id \in IdArgs : Add("addChild", id, addChild(familyData, id, <<"robert">>))
  \/ \E id \in IdArgs : Add("addSibling", id, addSibling(familyData, id, <<"robert">>))
  \/ \E id \in IdArgs : DeleteSpouse(id)
  \/ \E id \in IdArgs : RemovePerson(id)
  \/ \E id \in IdArgs : BranchDelete(id)
  \/ \E id \in IdArgs, from \in 1..MaxPeople, to \in 1..MaxPeople :
        ReorderChildren(id, from, to)

SpecSiblings == Init /\ [][NextSiblings]_vars

\* The store built by direct calls of addPerson and addRootSibling, read by
\* getChildren and buildGenerations and collapsed and expanded branch by
\* branch.  addPerson takes any parentIds and any birthOrder.
LayoutNames == { <<"robert">> }

BirthOrders == { NoBirthOrder, 0, 1, 1000 }

ParentLists ==
  {<<>>} \cup { <<a>> : a \in Keys(familyData) }
    \cup ({ <<a, b>> : a, b \in Keys(familyData) }
            \ { <<a, a>> : a \in Keys(familyData) })

AddPerson(name, parentIds, birthOrder) ==
  /\ Len(familyData.people) < MaxPeople
  /\ Call("addPerson", Null,
          addPerson(familyData, name, parentIds, Null, birthOrder), 0, parentIds)

AddRoot(name) ==
  /\ Len(familyData.people) < MaxPeople
  /\ Call("addRootSibling", Null, addRootSibling(familyData, Null, name), 0, <<>>)

GetChildren(personId) ==
  Call("getChildren", personId, Result(familyData, "list", Null), 0,
       idsOf(getChildren(familyData, personId)))

BuildGenerations(rootPersonId) ==
  Call("buildGenerations", rootPersonId, Result(familyData, "list", Null), 0,
       buildGenerations(familyData, rootPersonId))

\* list keeps the layout shown before the toggle
ToggleCollapse(personId) ==
  Call("toggleCollapse", personId,
       Result(toggleCollapse(familyData, personId), "undefined", Null), 0,
       layoutTree(familyData))

NextLayout ==
  \/ \E name \in LayoutNames, parentIds \in ParentLists, birthOrder \in BirthOrders :
        AddPerson(name, parentIds, birthOrder)
  \/ \E name \in LayoutNames : AddRoot(name)
  \/ \E id \in IdArgs : GetChildren(id)
  \/ \E id \in Keys(familyData) \cup {Null} : BuildGenerations(id)
  \/ \E id \in Keys(familyData) : ToggleCollapse(id)

SpecLayout == Init /\ [][NextLayout]_vars

----------------------------------------------------------------------------
(* Cloud storage and sign-in as a state machine.  cloudLast records the    *)
(* cloud call that produced the state: the function, how it ended, the     *)
(* tree and the token or event it was given, whether it contacted the      *)
(* store, the outcomes it met, and whether it repeats the call before it   *)
(* (same function, same arguments, same outcomes).  tasks holds the        *)
(* position of every post-sign-in task in progress: "scheduled" while its  *)
(* timer is pending, "reloading" once it has migrated and cleared          *)
(* localStorage and awaits loadAllTreesData.                               *)

AuthEvents == { "SIGNED_IN", "TOKEN_REFRESHED", "SIGNED_OUT" }

MigrateOutcomes == { <<a, b>> : a, b \in { "ok", "rejected" } }

CloudCall(op, ret, tree, arg, contacted, outcomes) ==
  /\ cloudLast' = [op |-> op, ret |-> ret, tree |-> tree, arg |-> arg,
                   contacted |-> contacted, outcomes |-> outcomes,
                   repeat |-> /\ cloudLast.op = op
                              /\ cloudLast.tree = tree
                              /\ cloudLast.arg = arg
                              /\ cloudLast.outcomes = outcomes]
  /\ UNCHANGED storeVars

\* the callback of onAuthStateChange
AuthStateChange(event, user) ==
  /\ event = "SIGNED_OUT" <=> user = NoUser
  /\ currentUser' = user
  /\ IF startsTask(event, isProcessingSignIn)
       THEN /\ Len(tasks) < MaxTasks
            /\ isProcessingSignIn' = TRUE
            /\ tasks' = Append(tasks, "scheduled")
       ELSE UNCHANGED <<isProcessingSignIn, tasks>>
  /\ UNCHANGED <<localStorage, trees, tree_shares>>
  /\ CloudCall("onAuthStateChange", "undefined", NoTree, event, FALSE, <<>>)

\* the timer of a post-sign-in task fires: migrate, then clear localStorage
RunTask(i, outcomes) ==
  /\ tasks[i] = "scheduled"
  /\ trees' = migrateLocalStorageToCloud(currentUser, trees, tree_shares,
                                         localStorage, outcomes)
  /\ Len(trees') <= MaxRows
  /\ localStorage' = <<>>
  /\ tasks' = [tasks EXCEPT ![i] = "reloading"]
  /\ UNCHANGED <<currentUser, isProcessingSignIn, tree_shares>>
  /\ CloudCall("postSignIn", "undefined", NoTree, "", FALSE, outcomes)

\* the reload of a post-sign-in task ends: it rendered and lowered the flag,
\* or loadAllTreesData / renderTree threw and the task ended there
FinishTask(i, outcome) ==
  /\ tasks[i] = "reloading"
  /\ tasks' = [j \in 1..(Len(tasks) - 1) |-> IF j < i THEN tasks[j] ELSE tasks[j + 1]]
  /\ isProcessingSignIn' = IF outcome = "ok" THEN FALSE ELSE isProcessingSignIn
  /\ UNCHANGED <<currentUser, localStorage, trees, tree_shares>>
  /\ CloudCall("postSignIn", outcome, NoTree, "", FALSE, <<>>)

\* the application writes its trees to localStorage
WriteLocalStorage(content) ==
  /\ localStorage' = content
  /\ UNCHANGED <<currentUser, isProcessingSignIn, trees, tree_shares, tasks>>
  /\ CloudCall("setItem", "undefined", NoTree, "", FALSE, <<>>)

SaveTreeToCloud(tree, outcome) ==
  LET r == saveTreeToCloud(currentUser, trees, tree_shares, tree, outcome)
  IN  /\ Len(r.trees) <= MaxRows
      /\ trees' = r.trees
      /\ UNCHANGED <<currentUser, isProcessingSignIn, localStorage, tree_shares, tasks>>
      /\ CloudCall("saveTreeToCloud", r.ret, tree, "", r.contacted, <<outcome>>)

LoadTreesFromCloud(outcome) ==
  /\ UNCHANGED <<currentUser, isProcessingSignIn, localStorage, trees, tree_shares,
                 tasks>>
  /\ CloudCall("loadTreesFromCloud",
               IF loadTreesFromCloud(currentUser, trees, outcome) = NoCloudData
                 THEN "null" ELSE "trees",
               NoTree, "", currentUser # NoUser, <<outcome>>)

MigrateLocalStorageToCloud(outcomes) ==
  /\ trees' = migrateLocalStorageToCloud(currentUser, trees, tree_shares,
                                         localStorage, outcomes)
  /\ Len(trees') <= MaxRows
  /\ UNCHANGED <<currentUser, isProcessingSignIn, localStorage, tree_shares, tasks>>
  /\ CloudCall("migrateLocalStorageToCloud", "undefined", NoTree, "", FALSE, outcomes)

CreateShareLink(max, treeId, permission, shareToken, outcome) ==
  LET r == createShareLink(currentUser, trees, tree_shares, treeId, permission,
                           shareToken, outcome)
  IN  /\ Len(r.tree_shares) <= max
      /\ tree_shares' = r.tree_shares
      /\ UNCHANGED <<currentUser, isProcessingSignIn, localStorage, trees, tasks>>
      /\ CloudCall("createShareLink", IF r.success THEN "true" ELSE "false",
                   NoTree, shareToken, currentUser # NoUser, <<outcome>>)

SaveTreeAsEditor(tree, shareToken, outcome) ==
  LET r == saveTreeAsEditor(currentUser, trees, tree_shares, tree, shareToken,
                            outcome)
  IN  /\ trees' = r.trees
      /\ UNCHANGED <<currentUser, isProcessingSignIn, localStorage, tree_shares, tasks>>
      /\ CloudCall("saveTreeAsEditor", r.ret, tree, shareToken, r.contacted,
                   <<outcome>>)

DisableShare(shareToken) ==
  /\ tree_shares' = disableShare(currentUser, tree_shares, shareToken)
  /\ UNCHANGED <<currentUser, isProcessingSignIn, localStorage, trees, tasks>>
  /\ CloudCall("disableShare", Undefined, NoTree, shareToken,
               currentUser # NoUser, <<>>)

GetTreeByShareToken(token, outcome) ==
  LET r == getTreeByShareToken(currentUser, trees, tree_shares, token, outcome)
  IN  /\ UNCHANGED <<currentUser, isProcessingSignIn, localStorage, trees,
                     tree_shares, tasks>>
      /\ CloudCall("getTreeByShareToken",
                   IF r = NoSharedTree THEN "null" ELSE r.permission,
                   r.tree, token, TRUE, <<outcome>>)

\* saving, loading and migrating
NextCloud ==
  \/ \E event \in { "SIGNED_IN", "SIGNED_OUT" }, user \in Users \cup {NoUser} :
        AuthStateChange(event, user)
  \/ \E content \in LocalContents : WriteLocalStorage(content)
  \/ \E tree \in ClientTrees, outcome \in SaveOutcomes : SaveTreeToCloud(tree, outcome)
  \/ \E outcome \in { "ok", "error" } : LoadTreesFromCloud(outcome)
  \/ \E outcomes \in MigrateOutcomes : MigrateLocalStorageToCloud(outcomes)

SpecCloud == Init /\ [][NextCloud]_vars

\* signing in and the post-sign-in task
NextSignIn ==
  \/ \E event \in AuthEvents, user \in Users \cup {NoUser} :
        AuthStateChange(event, user)
  \/ \E content \in LocalContents : WriteLocalStorage(content)
  \/ \E i \in DOMAIN tasks, outcomes \in MigrateOutcomes : RunTask(i, outcomes)
  \/ \E i \in DOMAIN tasks, outcome \in { "ok", "throws" } : FinishTask(i, outcome)

SpecSignIn == Init /\ [][NextSignIn]_vars

\* the timer of setTimeout(..., 0) fires, and the awaited migration and
\* reload settle: a task in progress takes its next step
SpecSignInFair ==
  /\ SpecSignIn
  /\ WF_vars(\E i \in DOMAIN tasks, outcomes \in MigrateOutcomes : RunTask(i, outcomes))
  /\ WF_vars(\E i \in DOMAIN tasks, outcome \in { "ok", "throws" } :
               FinishTask(i, outcome))

\* sharing a stored tree and saving it as an editor
NextShare ==
  \/ \E event \in { "SIGNED_IN", "SIGNED_OUT" }, user \in Users \cup {NoUser} :
        AuthStateChange(event, user)
  \/ \E tree \in ClientTrees : SaveTreeToCloud(tree, "ok")
  \/ \E treeId \in TreeIds, permission \in Permissions, shareToken \in Tokens,
        outcome \in { "ok", "rejected" } :
        CreateShareLink(MaxShares, treeId, permission, shareToken, outcome)
  \/ \E tree \in ClientTrees, shareToken \in Tokens, outcome \in EditorOutcomes :
        SaveTreeAsEditor(tree, shareToken, outcome)

SpecShare == Init /\ [][NextShare]_vars

\* disabling a share link and using its token afterwards
NextDisable ==
  \/ \E event \in { "SIGNED_IN", "SIGNED_OUT" }, user \in Users \cup {NoUser} :
        AuthStateChange(event, user)
  \/ \E tree \in { c \in ClientTrees : c.id = "tree-1" } : SaveTreeToCloud(tree, "ok")
  \/ \E permission \in Permissions, shareToken \in Tokens :
        CreateShareLink(MaxDisabledShares, "tree-1", permission, shareToken, "ok")
  \/ \E shareToken \in Tokens : DisableShare(shareToken)
  \/ \E token \in Tokens, outcome \in { "ok", "error" } :
        GetTreeByShareToken(token, outcome)
  \/ \E tree \in { c \in ClientTrees : c.id = "tree-1" }, shareToken \in Tokens,
        outcome \in { "ok", "updateError" } :
        SaveTreeAsEditor(tree, shareToken, outcome)

SpecDisable == Init /\ [][NextDisable]_vars


----------------------------------------------------------------------------
(* Properties of the entity store *)

People == Range(familyData.people)

RootIds == Range(familyData.rootPersonIds)

parentIdSet(fd, id) == Range(getPersonById(fd, id).parentIds)

RECURSIVE ancestorsFrom(_, _, _)
ancestorsFrom(fd, frontier, seen) ==
  LET new == (UNION { parentIdSet(fd, x) : x \in frontier }) \ seen
  IN  IF new = {} THEN seen ELSE ancestorsFrom(fd, new, seen \cup new)

\* the ids reached from id by following parentIds one or more times
ancestorIds(fd, id) ==
  LET ps == parentIdSet(fd, id) IN ancestorsFrom(fd, ps, ps)

\* C1: spouse symmetry: for all persons A and B of the store,
\* A.spouseId = B.id exactly when B.spouseId = A.id
C1_SpouseSymmetry ==
  \A a \in People, b \in People :
     (a.spouseId = b.id) <=> (b.spouseId = a.id)

\* C2: referential integrity: every id in some parentIds, in some non-null
\* spouseId or in rootPersonIds is a key of people
C2_ReferentialIntegrity ==
  /\ \A p \in People :
        /\ Range(p.parentIds) \subseteq Keys(familyData)
        /\ p.spouseId # Null => p.spouseId \in Keys(familyData)
  /\ RootIds \subseteq Keys(familyData)

\* C3 as stated: a person has no parents exactly when its id is a root id
C3_RootInvariant ==
  \A p \in People : (p.parentIds = <<>>) <=> (p.id \in RootIds)

\* C3 as amended: an id enters rootPersonIds only as the id of a person
\* created by that step, and that person has no parents
C3_RootEntry ==
  [][ \A id \in Range(familyData'.rootPersonIds) \ RootIds :
         /\ id \notin Keys(familyData)
         /\ id \in Keys(familyData')
         /\ getPersonById(familyData', id).parentIds = <<>>
         /\ last'.op = "addRootSibling" /\ last'.newId = id ]_vars

\* C3 witness: addRootSibling has just listed a second root, next to a
\* parentless person that is not a root
C3_Witness ==
  /\ last.op = "addRootSibling"
  /\ last.newId \in RootIds
  /\ \E p \in People : p.parentIds = <<>> /\ p.id \notin RootIds

\* C4: acyclicity: no person is its own ancestor
C4_Acyclic ==
  \A p \in People : p.id \notin ancestorIds(familyData, p.id)

----------------------------------------------------------------------------
(* Contracts of the operations, stated on the step that last describes *)

IsCall(op) == last'.op = op

Subject == getPersonById(familyData, last'.id)

NewKeys == Keys(familyData') \ Keys(familyData)

\* the step added one person and removed nobody
OneNewPerson ==
  /\ Cardinality(NewKeys) = 1
  /\ Keys(familyData) \subseteq Keys(familyData')
  /\ Len(familyData'.people) = Len(familyData.people) + 1

NewPerson == getPersonById(familyData', CHOOSE id \in NewKeys : TRUE)

StoreUnchanged == familyData' = familyData

\* C5: cascade-delete completeness: after the branch delete of P, neither P
\* nor any descendant of P is a key of people, and no parentIds names P
C5_CascadeDelete ==
  [][ IsCall("confirmDelete") =>
        /\ \A id \in descendantIds(familyData, last'.id) \cup {last'.id} :
              id \notin Keys(familyData')
        /\ \A p \in Range(familyData'.people) :
              ~includes(p.parentIds, last'.id) ]_vars

\* C5 witness: a branch delete that listed at least one descendant has run
C5_Witness == last.op = "confirmDelete" /\ last.n >= 1

\* C6: removePerson(id) on an existing person returns true and leaves id out
\* of people, out of rootPersonIds and out of every parentIds, and leaves the
\* former partner with spouseId null
C6_RemovePerson ==
  [][ IsCall("removePerson") /\ Subject # NoPerson =>
        /\ last'.ret = "true"
        /\ last'.id \notin Keys(familyData')
        /\ last'.id \notin Range(familyData'.rootPersonIds)
        /\ \A p \in Range(familyData'.people) : ~includes(p.parentIds, last'.id)
        /\ \A p \in Range(familyData'.people) :
              p.id = Subject.spouseId => p.spouseId = Null ]_vars

\* C7: addSpouse on a person that has a spouse returns null and changes
\* neither people nor rootPersonIds
C7_AddSpouseRefused ==
  [][ IsCall("addSpouse") /\ Subject # NoPerson /\ Subject.spouseId # Null =>
        last'.ret = "null" /\ StoreUnchanged ]_vars

\* C7 witness: addSpouse was called on a person with a spouse
C7_Witness ==
  /\ last.op = "addSpouse"
  /\ getSpouse(familyData, last.id) # NoPerson
  /\ last.ret = "null"

\* C8: addChild on an existing parent creates exactly one person, with
\* parentIds [parentId] or [parentId, parent.spouseId] and spouseId null
C8_AddChild ==
  [][ IsCall("addChild") /\ Subject # NoPerson =>
        /\ OneNewPerson
        /\ NewPerson.parentIds =
             IF Subject.spouseId = Null THEN <<last'.id>>
             ELSE <<last'.id, Subject.spouseId>>
        /\ NewPerson.spouseId = Null ]_vars

\* C8 witness: addChild has created a child of a married parent
C8_Witness ==
  /\ last.op = "addChild"
  /\ last.newId \in Keys(familyData)
  /\ Len(getPersonById(familyData, last.newId).parentIds) = 2

SetMax(S) == CHOOSE m \in S : \A x \in S : x <= m

\* the largest birthOrder set on a person that has parentId among its parents
LargestOrder(parentId) ==
  LET orders == { p.birthOrder : p \in { q \in People :
                     includes(q.parentIds, parentId) /\ q.birthOrder # NoBirthOrder } }
  IN  IF orders = {} THEN 0 ELSE SetMax(orders)

\* C9: addChild and addSibling give the new person birthOrder M + 1, M the
\* largest birthOrder among the existing children of the parent (of the
\* subject's first parent for addSibling), 0 when there are none
C9_BirthOrderAppend ==
  [][ /\ (IsCall("addChild") /\ last'.newId # Null
            => getPersonById(familyData', last'.newId).birthOrder
                 = LargestOrder(last'.id) + 1)
      /\ (IsCall("addSibling") /\ last'.newId # Null
            => getPersonById(familyData', last'.newId).birthOrder
                 = LargestOrder(Subject.parentIds[1]) + 1) ]_vars

\* C9 witness: addSibling has appended after two existing children
C9_Witness ==
  /\ last.op = "addSibling"
  /\ last.newId \in Keys(familyData)
  /\ getPersonById(familyData, last.newId).birthOrder = 3

\* C10: addSibling on a person with a parent creates one person with the
\* same parentIds; on a parentless person or an unknown id it returns null
\* and changes neither people nor rootPersonIds
C10_AddSibling ==
  [][ IsCall("addSibling") =>
        IF Subject = NoPerson \/ Subject.parentIds = <<>>
          THEN last'.ret = "null" /\ StoreUnchanged
          ELSE /\ OneNewPerson
               /\ NewPerson.parentIds = Subject.parentIds ]_vars

\* C10 witness: addSibling was refused on a parentless person of a store that
\* holds two persons with the same, non-empty parentIds
C10_Witness ==
  /\ last.op = "addSibling"
  /\ last.ret = "null"
  /\ last.id \in Keys(familyData)
  /\ \E p \in People, q \in People :
        p.id # q.id /\ p.parentIds # <<>> /\ p.parentIds = q.parentIds

\* C11: addRootSibling on a root person creates one person with empty
\* parentIds and null spouseId and appends its id as the last element of
\* rootPersonIds, the earlier elements keeping their order
C11_AddRootSibling ==
  [][ IsCall("addRootSibling") /\ Subject # NoPerson
        /\ last'.id \in Range(familyData.rootPersonIds) =>
        /\ OneNewPerson
        /\ NewPerson.parentIds = <<>>
        /\ NewPerson.spouseId = Null
        /\ familyData'.rootPersonIds =
             Append(familyData.rootPersonIds, NewPerson.id) ]_vars

\* C11 witness: addRootSibling on a root has added a second root at the end
C11_Witness ==
  /\ last.op = "addRootSibling"
  /\ Len(familyData.rootPersonIds) >= 2
  /\ last.id \in Range(SubSeq(familyData.rootPersonIds, 1,
                               Len(familyData.rootPersonIds) - 1))
  /\ familyData.rootPersonIds[Len(familyData.rootPersonIds)] = last.newId

\* C12: addRootSibling on a person with parents is a no-op: it returns a
\* null/false value and people and rootPersonIds are unchanged
C12_AddRootSiblingNonRoot ==
  [][ IsCall("addRootSibling") /\ Subject # NoPerson
        /\ Subject.parentIds # <<>> =>
        /\ last'.ret \in {"null", "false"}
        /\ StoreUnchanged ]_vars

\* C13: deleteSpouse(personId, spouseId) with spouseId the spouse of personId
\* leaves personId in people with spouseId null, and the spouse's id no
\* longer resolves
C13_DeleteSpouse ==
  [][ IsCall("deleteSpouse") /\ getSpouse(familyData, last'.id) # NoPerson =>
        /\ getPersonById(familyData', last'.id) # NoPerson
        /\ getPersonById(familyData', last'.id).spouseId = Null
        /\ getPersonById(familyData', Subject.spouseId) = NoPerson ]_vars

\* C13 witness: deleteSpouse has run on a person that is still in the store
C13_Witness ==
  /\ last.op = "deleteSpouse"
  /\ last.id \in Keys(familyData)
  /\ Len(familyData.people) < created

\* C14: the id of a newly added person is the lower-cased first word of
\* its name followed by the smallest positive integer for which the key is
\* not in people at that moment; it is the id of no person in the store and
\* no person of the store is lost
C14_GenerateId ==
  [][ last'.newId # Null =>
        LET id == last'.newId
            p  == getPersonById(familyData', id)
        IN  /\ id \notin Keys(familyData)
            /\ p # NoPerson
            /\ id[1] = toLowerCase(p.name[1])
            /\ id[2] >= 1
            /\ \A n \in 1..(id[2] - 1) : <<id[1], n>> \in Keys(familyData)
            /\ Keys(familyData) \subseteq Keys(familyData') ]_vars

\* C14 witness: a person named with a capital letter was given a counter
\* that an earlier, deleted person had, next to a person with a higher one
C14_Witness ==
  /\ last.newId \in Keys(familyData)
  /\ getPersonById(familyData, last.newId).name[1] = "Robert"
  /\ last.newId[2] < created
  /\ \E k \in Keys(familyData) : k[1] = last.newId[1] /\ k[2] > last.newId[2]

\* the ids some person or the root list mentions, and one id never used
MentionedIds ==
  RootIds \cup {UnknownId}
    \cup UNION { Range(p.parentIds) \cup ({p.spouseId} \ {Null}) : p \in People }

\* C15: for every id that is not a key of people, getSpouse returns null
\* and getChildren, getSiblings and getDescendants return empty lists
C15_UnknownIdResolvers ==
  \A id \in MentionedIds \ Keys(familyData) :
     /\ getPersonById(familyData, id) = NoPerson
     /\ getSpouse(familyData, id) = NoPerson
     /\ getChildren(familyData, id) = <<>>
     /\ getSiblings(familyData, id) = <<>>
     /\ ~recursionOverflows(familyData, id)
     /\ getDescendants(familyData, id) = <<>>

\* C16: with an id that is not a key of people, addChild, addSibling and
\* addSpouse return null, updatePerson and removePerson return false, and
\* people and rootPersonIds are unchanged
C16_UnknownIdMutations ==
  [][ last'.id \notin Keys(familyData) =>
        /\ last'.op \in {"addChild", "addSibling", "addSpouse"} =>
              last'.ret = "null" /\ StoreUnchanged
        /\ last'.op \in {"updatePerson", "removePerson"} =>
              last'.ret = "false" /\ StoreUnchanged ]_vars

\* C16 witness: updatePerson was called with an unknown id on a store that
\* holds a person
C16_Witness ==
  /\ last.op = "updatePerson"
  /\ last.id = UnknownId
  /\ last.ret = "false"
  /\ familyData.people # <<>>

\* the person at position i of the committed list has birthOrder i
orderedAsCommitted(fd, items) ==
  \A i \in DOMAIN items : getPersonById(fd, items[i]).birthOrder = i

\* C18: after handleDragEnd the person at position i of the committed list
\* has birthOrder i (1-based) and getChildren(parent) returns the committed
\* order; after handleRootDragEnd the same holds for the roots and
\* rootPersonIds is the committed id sequence
C18_ReorderCommit ==
  [][ /\ IsCall("handleDragEnd") =>
            /\ orderedAsCommitted(familyData', last'.list)
            /\ idsOf(getChildren(familyData', last'.id)) = last'.list
      /\ IsCall("handleRootDragEnd") =>
            /\ orderedAsCommitted(familyData', last'.list)
            /\ idsOf(sortByBirthOrder(rootPeople(familyData'))) = last'.list
            /\ familyData'.rootPersonIds = last'.list ]_vars

\* the list getChildren has returned, as persons
Returned == [i \in DOMAIN last.list |-> getPersonById(familyData, last.list[i])]

\* the position of a person in people: the order of insertion
insertedAt(id) == CHOOSE i \in DOMAIN familyData.people : familyData.people[i].id = id

\* the returned list is exactly the persons whose parentIds contains the id
returnsTheChildren ==
  /\ Range(last.list) = { p.id : p \in { q \in People : includes(q.parentIds, last.id) } }
  /\ \A i, j \in DOMAIN last.list : last.list[i] = last.list[j] => i = j

keyOf(p) == IF p.birthOrder \in {NoBirthOrder, 0} THEN SortSentinel ELSE p.birthOrder

Placements == { <<g, i>> : g \in DOMAIN last.list, i \in 1..MaxPeople }

placedAt(pos) == last.list[pos[1]][pos[2]]

\* C19: the result of buildGenerations never holds the same person id
\* twice, neither in two generations nor twice in one
C19_GenerationsNoDuplicate ==
  last.op = "buildGenerations" =>
    \A a, b \in { pos \in Placements : pos[2] \in DOMAIN last.list[pos[1]] } :
       placedAt(a) = placedAt(b) => a = b

\* C19 witness: buildGenerations has placed a person whose two parents are
\* in two different generations of the result
C19_Witness ==
  /\ last.op = "buildGenerations"
  /\ Len(last.list) >= 2
  /\ \E id \in Range(last.list[2]) :
        /\ Len(getPersonById(familyData, id).parentIds) = 2
        /\ Range(getPersonById(familyData, id).parentIds)
              \subseteq Range(last.list[1]) \cup Range(last.list[2])
        /\ Range(getPersonById(familyData, id).parentIds) \cap Range(last.list[2]) # {}

C23_UpdatePerson ==
  [][ IsCall("updatePerson") /\ Subject # NoPerson =>
        /\ last'.ret = "true"
        /\ familyData'.rootPersonIds = familyData.rootPersonIds
        /\ DOMAIN familyData'.people = DOMAIN familyData.people
        /\ \A i \in DOMAIN familyData.people :
              familyData'.people[i] =
                IF familyData.people[i].id = last'.id
                  THEN [familyData.people[i] EXCEPT !.name = last'.list]
                  ELSE familyData.people[i] ]_vars

\* C24: each person's parentIds holds at most 2 ids and no id twice
C24_ParentIdsSet ==
  \A p \in People :
     /\ Len(p.parentIds) <= 2
     /\ \A i, j \in DOMAIN p.parentIds : p.parentIds[i] = p.parentIds[j] => i = j

\* C24 witness: a person with two parents has a sibling with the same two
C24_Witness ==
  \E p, q \in People :
     /\ p.id # q.id
     /\ Len(p.parentIds) = 2
     /\ q.parentIds = p.parentIds

\* C29: getDescendants(p) returns exactly the persons reachable from p by
\* one or more child links, depth-first in pre-order: the children of p in
\* getChildren order, each followed at once by its own descendants
C29_Descendants ==
  \A id \in Keys(familyData) :
     /\ ~recursionOverflows(familyData, id)
     /\ LET list == getDescendants(familyData, id)
            children == getChildren(familyData, id)
        IN  /\ Range(idsOf(list)) = descendantIds(familyData, id)
            /\ children # <<>> => list[1] = children[1]
            /\ \A i \in DOMAIN list :
                  getChildren(familyData, list[i].id) # <<>> =>
                    /\ i + 1 \in DOMAIN list
                    /\ list[i + 1] = getChildren(familyData, list[i].id)[1]

\* C30: buildGenerations, called on the store as it is (the store has no
\* rootPersonId field), starts from all the ids of rootPersonIds: the first
\* generation is the list of root ids and every person reachable from a root
\* by child links is placed in some generation
C30_GenerationsFromAllRoots ==
  last.op = "buildGenerations" /\ last.id = Null =>
    /\ last.list[1] = familyData.rootPersonIds
    /\ \A r \in RootIds :
          {r} \cup descendantIds(familyData, r)
            \subseteq UNION { Range(last.list[g]) : g \in DOMAIN last.list }

----------------------------------------------------------------------------
(* Contracts of cloud storage, sharing and sign-in *)

StoredIds(table) == { table[i].id : i \in DOMAIN table }

\* C21: after a signed-in user has saved a tree with saveTreeToCloud,
\* loadTreesFromCloud yields under that tree's id a tree with the people
\* and the rootPersonIds sequence, order included, that were saved
C21_RoundTrip ==
  cloudLast.op = "saveTreeToCloud" /\ cloudLast.ret = "true" =>
    LET loaded == loadTreesFromCloud(currentUser, trees, "ok")
        saved == cloudLast.tree
    IN  /\ saved.id \in DOMAIN loaded.trees
        /\ loaded.trees[saved.id].people = saved.people
        /\ loaded.trees[saved.id].rootPersonIds = saved.rootPersonIds

\* C21 witness: a tree with two roots, in another order than they were
\* added in, has been saved next to another stored tree
C21_Witness ==
  /\ cloudLast.op = "saveTreeToCloud"
  /\ cloudLast.ret = "true"
  /\ cloudLast.tree.rootPersonIds = << <<"eleanor", 1>>, <<"robert", 1>> >>
  /\ Len(trees) = 2

\* C22: a successful saveTreeToCloud leaves exactly one row with the tree's
\* id, holding what was saved; a row with that id is replaced, not joined by
\* a second one; saving the same tree again changes nothing
C22_IdempotentUpsert ==
  [][ cloudLast'.op = "saveTreeToCloud" /\ cloudLast'.ret = "true" =>
        LET tree == cloudLast'.tree
        IN  /\ Cardinality(rowsWithId(trees', tree.id)) = 1
            /\ \A i \in rowsWithId(trees', tree.id) :
                  trees'[i] = treeData(tree, currentUser)
            /\ rowsWithId(trees, tree.id) # {} => Len(trees') = Len(trees)
            /\ \A i \in DOMAIN trees :
                  trees[i].id # tree.id => trees'[i] = trees[i]
            /\ cloudLast'.repeat => trees' = trees ]_vars

\* C22 witness: the same tree was saved twice in a row, both times with
\* success, in a store that holds another tree as well
C22_Witness ==
  /\ cloudLast.op = "saveTreeToCloud"
  /\ cloudLast.ret = "true"
  /\ cloudLast.repeat
  /\ Len(trees) = 2

\* C25: saveTreeToCloud ends with true or false and never throws: true
\* exactly when a user is signed in and the store accepted the request,
\* false for every failure of the session lookup, the network or the store;
\* with no user signed in it is false and the store was not contacted
C25_SaveNeverThrows ==
  [][ cloudLast'.op = "saveTreeToCloud" =>
        /\ cloudLast'.ret \in { "true", "false" }
        /\ cloudLast'.ret = "true" <=>
              /\ currentUser # NoUser
              /\ response(trees, tree_shares,
                          treeData(cloudLast'.tree, currentUser),
                          cloudLast'.outcomes[1]) = "ok"
        /\ currentUser = NoUser => ~cloudLast'.contacted ]_vars

\* C25 witness: a signed-in user's save met a network failure
C25_Witness ==
  /\ cloudLast.op = "saveTreeToCloud"
  /\ currentUser # NoUser
  /\ cloudLast.outcomes = << "networkError" >>
  /\ cloudLast.contacted

\* C26: migrateLocalStorageToCloud stores nothing under an id that is not
\* the id of a local tree, and run again on the same localStorage content
\* it leaves the trees of the store as the first run left them
C26_MigrationIdempotent ==
  [][ cloudLast'.op = "migrateLocalStorageToCloud" =>
        /\ StoredIds(trees') \subseteq StoredIds(trees) \cup StoredIds(localStorage)
        /\ cloudLast'.repeat => trees' = trees ]_vars

\* C26 witness: the migration ran twice in a row and the store holds the
\* local trees of the signed-in user that are not skipped
C26_Witness ==
  /\ cloudLast.op = "migrateLocalStorageToCloud"
  /\ cloudLast.repeat
  /\ \E i \in DOMAIN localStorage : ~skipped(localStorage[i])
  /\ \A i \in DOMAIN localStorage :
        ~skipped(localStorage[i]) =>
          \E j \in DOMAIN trees : trees[j] = treeData(localStorage[i], currentUser)

\* C27: saveTreeAsEditor changes a stored tree only when shareToken is the
\* token of a share record with permission 'editor', and then only the tree
\* of that record, whatever tree.id is; with an unknown token or a 'viewer'
\* token it returns false and changes nothing
C27_EditorSaveAuthority ==
  [][ cloudLast'.op = "saveTreeAsEditor" =>
        LET editor == { k \in sharesWithToken(tree_shares, cloudLast'.arg) :
                          tree_shares[k].permission = "editor" }
        IN  /\ DOMAIN trees' = DOMAIN trees
            /\ \A i \in DOMAIN trees :
                  trees'[i] # trees[i] =>
                    \E k \in editor : tree_shares[k].tree_id = trees[i].id
            /\ editor = {} => cloudLast'.ret = "false" /\ trees' = trees ]_vars

\* C27 witness: an editor save given a tree with another id than the shared
\* tree's has succeeded and the shared tree holds the saved content
C27_Witness ==
  /\ cloudLast.op = "saveTreeAsEditor"
  /\ cloudLast.ret = "true"
  /\ \E k \in sharesWithToken(tree_shares, cloudLast.arg) :
        /\ tree_shares[k].tree_id # cloudLast.tree.id
        /\ \E i \in rowsWithId(trees, tree_shares[k].tree_id) :
              trees[i].data.people = cloudLast.tree.people
  /\ \E i \in rowsWithId(trees, cloudLast.tree.id) :
        trees[i].data.people # cloudLast.tree.people

\* C28: at most one post-sign-in task is in progress at any time
C28_OneSignInTask == Len(tasks) <= 1

\* C28 witness: a SIGNED_IN event has arrived while the post-sign-in task
\* of an earlier one was reloading
C28_Witness ==
  /\ cloudLast.op = "onAuthStateChange"
  /\ cloudLast.arg = "SIGNED_IN"
  /\ tasks = << "reloading" >>
  /\ isProcessingSignIn

\* C31: the branch delete of P leaves every person who is neither P, nor a
\* descendant of P, nor P's spouse exactly as it was, and leaves P's former
\* spouse, when it stays, with spouseId null
C31_DeleteFrame ==
  [][ IsCall("confirmDelete") =>
        LET deleted == descendantIds(familyData, last'.id) \cup {last'.id}
        IN  /\ \A p \in People :
                  p.id \notin deleted /\ p.id # Subject.spouseId =>
                    getPersonById(familyData', p.id) = p
            /\ \A p \in People :
                  p.id \notin deleted /\ p.id = Subject.spouseId =>
                    getPersonById(familyData', p.id) = [p EXCEPT !.spouseId = Null] ]_vars

\* C31 witness: a branch delete removed a person and its one child, and the
\* person's former spouse is all that stays, with no spouse
C31_Witness ==
  /\ last.op = "confirmDelete"
  /\ last.n = 1
  /\ Cardinality(People) = 1
  /\ \A p \in People : p.spouseId = Null /\ p.id \notin RootIds /\ p.id # last.id

lastOf(persons) == persons[Len(persons)]

\* C32: right after addChild, addSibling or addRootSibling has returned the
\* new id, the new person is the last of its sibling order: of getChildren
\* of the parent (for addSibling the first parent of the subject), and for
\* addRootSibling of the roots sorted by birthOrder, whatever birthOrder the
\* existing siblings have or lack
C32_AppendRule ==
  [][ /\ IsCall("addChild") /\ last'.ret = "id" =>
           lastOf(getChildren(familyData', last'.id)).id = last'.newId
      /\ IsCall("addSibling") /\ last'.ret = "id" =>
           lastOf(getChildren(familyData', Subject.parentIds[1])).id = last'.newId
      /\ IsCall("addRootSibling") /\ last'.ret = "id" =>
           lastOf(sortByBirthOrder(rootPeople(familyData'))).id = last'.newId ]_vars

\* C33: after the branch delete of P no remaining person's spouseId or
\* parentIds and no entry of rootPersonIds names P or a deleted descendant
\* of P
C33_DeleteLeavesNoReference ==
  [][ IsCall("confirmDelete") =>
        LET deleted == descendantIds(familyData, last'.id) \cup {last'.id}
        IN  /\ \A p \in Range(familyData'.people) :
                  /\ p.spouseId \notin deleted
                  /\ Range(p.parentIds) \cap deleted = {}
            /\ Range(familyData'.rootPersonIds) \cap deleted = {} ]_vars

\* C34: ids are never reused: a new person's id is the id of no person
\* created before it, deleted ones included, and no leftover reference
\* names it.  (Every id of this specification has the base "robert", and
\* the persons created so far were given counters from 1 to created.)
C34_IdsNeverReused ==
  [][ last'.newId # Null =>
        /\ last'.newId[2] > created
        /\ last'.newId \notin MentionedIds ]_vars

\* the persons renderTree draws: the roots, their descendants, and the
\* spouse drawn next to each of them
drawnIds ==
  LET roots == RootIds \cap Keys(familyData)
      branches == roots \cup UNION { descendantIds(familyData, r) : r \in roots }
  IN  branches \cup { getSpouse(familyData, id).id : id \in branches }

\* C35: every person in people is drawn by the tree layout: it is a root of
\* rootPersonIds, a descendant of such a root, or the spouse of one of these
C35_NoOrphans == Keys(familyData) \subseteq drawnIds

\* C36: for every person p the recursions getDescendants(p) and
\* renderBranch(p) end, and getDescendants(p) lists no person twice
C36_RecursionsEnd ==
  \A id \in Keys(familyData) :
     /\ ~recursionOverflows(familyData, id)
     /\ LET list == getDescendants(familyData, id)
        IN  \A i, j \in DOMAIN list : list[i].id = list[j].id => i = j

\* the step in which a post-sign-in task migrates and clears localStorage
TaskMigrates ==
  \E i \in DOMAIN tasks : tasks[i] = "scheduled" /\ tasks'[i] = "reloading"

\* C37: the post-sign-in task takes a tree with people out of localStorage
\* only when the cloud save of that tree succeeded: after the step the tree
\* is still in localStorage or the store holds it
C37_NoLocalDataLoss ==
  [][ TaskMigrates =>
        \A i \in DOMAIN localStorage :
           localStorage[i].people # <<>> =>
             \/ \E j \in DOMAIN localStorage' : localStorage'[j] = localStorage[i]
             \/ \E j \in DOMAIN trees' :
                   /\ trees'[j].id = localStorage[i].id
                   /\ trees'[j].data.people = localStorage[i].people ]_vars

\* C38: sign-in processing always completes: whenever isProcessingSignIn is
\* raised it is lowered again later, whether the migration, the reload and
\* the render succeed or fail
C38_SignInCompletes == isProcessingSignIn ~> ~isProcessingSignIn

\* C39: a disabled share link grants nothing: with a token whose share
\* record has is_active = false, getTreeByShareToken returns null and
\* saveTreeAsEditor returns false and changes no stored tree
C39_DisabledLinkGrantsNothing ==
  [][ (\E k \in sharesWithToken(tree_shares, cloudLast'.arg) :
          ~tree_shares[k].is_active) =>
        /\ cloudLast'.op = "getTreeByShareToken" => cloudLast'.ret = "null"
        /\ cloudLast'.op = "saveTreeAsEditor" =>
              cloudLast'.ret = "false" /\ trees' = trees ]_vars

\* C39, the part about reading: getTreeByShareToken returns null for a
\* disabled token
C39_DisabledLinkReadsNothing ==
  [][ /\ cloudLast'.op = "getTreeByShareToken"
      /\ \E k \in sharesWithToken(tree_shares, cloudLast'.arg) :
            ~tree_shares[k].is_active
      => cloudLast'.ret = "null" ]_vars

\* a signed-out caller has saved through a disabled editor token
C39_AnonymousSaveThroughDisabledLink ==
  /\ cloudLast.op = "saveTreeAsEditor"
  /\ cloudLast.ret = "true"
  /\ currentUser = NoUser
  /\ \E k \in sharesWithToken(tree_shares, cloudLast.arg) :
        ~tree_shares[k].is_active

\* the birthOrder values of getChildren(id) are set and pairwise distinct,
\* for every stored person id
siblingOrderTotal(fd) ==
  \A id \in Keys(fd) :
    LET children == getChildren(fd, id)
    IN  \A i, j \in DOMAIN children :
          /\ children[i].birthOrder # NoBirthOrder
          /\ children[i].birthOrder = children[j].birthOrder => i = j

\* C40: sibling order is total: addChild, addSibling, a reorder and the
\* delete operations, applied to a tree in which the children of every person
\* have set and pairwise distinct birthOrders, lead to such a tree again
C40_SiblingOrderTotal ==
  [][ /\ siblingOrderTotal(familyData)
      /\ last'.op \in { "addChild", "addSibling", "handleDragEnd",
                        "handleRootDragEnd", "removePerson", "confirmDelete",
                        "deleteSpouse" }
      => siblingOrderTotal(familyData') ]_vars

====
